---- MODULE Spec2Model ----
(***************************************************************************)
(* Model of skill/scripts/log_monitor.py: the LogMonitor session           *)
(* (parse, classify, deduplicate, aggregate), LogMonitor.stream_logs with  *)
(* its source process, SIGINT handler and duration check, the reports and  *)
(* main.                                                                   *)
(*                                                                         *)
(* A Python str is modelled as a sequence of one-character strings, so     *)
(* that the regular expressions and str methods of the code are computed   *)
(* character by character.                                                 *)
(***************************************************************************)
EXTENDS Integers, Sequences, FiniteSets, TLC

(***************************************************************************)
(* Characters and the str / re primitives the code uses                    *)
(***************************************************************************)
Digits == {"0", "1", "2", "3", "4", "5", "6", "7", "8", "9"}

\* the characters \s and str.strip() treat as whitespace (those of the model's alphabet)
Spaces == {" ", "\t"}

UpperCase == <<"A", "B", "C", "D", "E", "F", "G", "H", "I", "J", "K", "L", "M",
               "N", "O", "P", "Q", "R", "S", "T", "U", "V", "W", "X", "Y", "Z">>

LowerCase == <<"a", "b", "c", "d", "e", "f", "g", "h", "i", "j", "k", "l", "m",
               "n", "o", "p", "q", "r", "s", "t", "u", "v", "w", "x", "y", "z">>

\* Optional values: None is the empty tuple, a present value x is <<x>>
None == <<>>

Some(x) == <<x>>

\* F(x) with x computed once: TLC evaluates the argument of an operator, and
\* a LET definition, again at every use unless it is bound through a set
Let(F(_), x) == CHOOSE r \in {F(v) : v \in {x}} : TRUE

\* str.lower() on one character
LowerChar(c) ==
    IF \E i \in 1..26 : UpperCase[i] = c
    THEN LowerCase[CHOOSE i \in 1..26 : UpperCase[i] = c]
    ELSE c

\* str.lower()
Lower(s) == [i \in 1..Len(s) |-> LowerChar(s[i])]

\* length of the longest run of characters of cls that starts at s[i]
RECURSIVE Run(_, _, _)
Run(s, i, cls) ==
    IF i >= 1 /\ i <= Len(s) /\ s[i] \in cls THEN 1 + Run(s, i + 1, cls) ELSE 0

\* index of the first c at or after s[i], 0 when there is none
RECURSIVE Find(_, _, _)
Find(s, i, c) ==
    IF i < 1 \/ i > Len(s) THEN 0
    ELSE IF s[i] = c THEN i
    ELSE Find(s, i + 1, c)

\* index of the last character of s[1..i] that is not whitespace, 0 when there is none
RECURSIVE LastNonSpace(_, _)
LastNonSpace(s, i) ==
    IF i >= 1 /\ s[i] \in Spaces THEN LastNonSpace(s, i - 1) ELSE i

\* str.lstrip(), str.rstrip(), str.strip()
LStrip(s) == Let(LAMBDA v : SubSeq(v, 1 + Run(v, 1, Spaces), Len(v)), s)

RStrip(s) == Let(LAMBDA v : SubSeq(v, 1, LastNonSpace(v, Len(v))), s)

Strip(s) == RStrip(LStrip(s))

\* int() of a run of decimal digits
DigitValue(c) == CHOOSE v \in 0..9 : <<"0", "1", "2", "3", "4", "5", "6", "7", "8", "9">>[v + 1] = c

\* int(ds[:n])
RECURSIVE IntOfPrefix(_, _)
IntOfPrefix(ds, n) ==
    IF n = 0 THEN 0 ELSE 10 * IntOfPrefix(ds, n - 1) + DigitValue(ds[n])

IntOf(ds) == IntOfPrefix(ds, Len(ds))

\* re.sub(r"\d+", "", s): every maximal run of digits is replaced by
\* nothing, which leaves the characters that are not digits
SubDigits(s) == SelectSeq(s, LAMBDA c : c \notin Digits)

\* re.sub(r"\s+", " ", s): every maximal run of whitespace is replaced by
\* one space: the first character of a run becomes " ", the others go
SubSpaces(s) ==
    LET kept == SelectSeq([i \in 1..Len(s) |-> i],
                          LAMBDA i : s[i] \notin Spaces \/ i = 1 \/ s[i - 1] \notin Spaces)
    IN  [k \in DOMAIN kept |-> IF s[kept[k]] \in Spaces THEN " " ELSE s[kept[k]]]

\* s[:n]
Take(s, n) == SubSeq(s, 1, IF Len(s) < n THEN Len(s) ELSE n)

\* s[-n:]
Last(s, n) == SubSeq(s, IF Len(s) > n THEN Len(s) - n + 1 ELSE 1, Len(s))

(***************************************************************************)
(* LogMonitor.parse_time_duration                                          *)
(***************************************************************************)
DurationUnits == {"s", "m", "h"}

\* MatchDuration with the unit ignored: the value is taken as seconds
MatchDuration_UnitIgnored(low) ==
    LET n   == Run(low, 1, Digits)
        ok  == n >= 1 /\ n + 1 <= Len(low) /\ low[n + 1] \in DurationUnits
    IN  IF ~ok THEN [ok |-> FALSE, seconds |-> 0]
        ELSE [ok |-> TRUE, seconds |-> IntOfPrefix(low, n)]

\* re.match(r"(\d+)([smh])", duration_str.lower()): a match at the start of
\* the string, which need not reach its end.  ok = FALSE is the ValueError.
MatchDuration(low) ==
    LET n   == Run(low, 1, Digits)
        ok  == n >= 1 /\ n + 1 <= Len(low) /\ low[n + 1] \in DurationUnits
        value == IntOfPrefix(low, n)
        unit  == low[n + 1]
    IN  IF ~ok THEN [ok |-> FALSE, seconds |-> 0]
        ELSE [ok |-> TRUE,
              seconds |-> IF unit = "s" THEN value
                          ELSE IF unit = "m" THEN value * 60
                          ELSE value * 3600]

ParseTimeDuration(duration_str) == Let(MatchDuration, Lower(duration_str))

(***************************************************************************)
(* LogMonitor.parse_logcat_line                                            *)
(***************************************************************************)
Priorities == {"V", "D", "I", "W", "E", "F"}

\* PRIORITY_MAP with "F" mapped to "error"
PRIORITY_MAP_FatalAsError(p) ==
    CASE p = "V" -> "verbose"
      [] p = "D" -> "debug"
      [] p = "I" -> "info"
      [] p = "W" -> "warning"
      [] p = "E" -> "error"
      [] p = "F" -> "error"
      [] OTHER   -> "unknown"

\* self.PRIORITY_MAP.get(p, "unknown")
PRIORITY_MAP(p) ==
    CASE p = "V" -> "verbose"
      [] p = "D" -> "debug"
      [] p = "I" -> "info"
      [] p = "W" -> "warning"
      [] p = "E" -> "error"
      [] p = "F" -> "fatal"
      [] OTHER   -> "unknown"

\* The part of the pattern up to the priority,
\*   (\d{2}-\d{2}\s+\d{2}:\d{2}:\d{2}\.\d{3})\s+(\d+)\s+(\d+)\s+([VDIWEF]),
\* as a sequence of tokens: one character of a class, or one or more of them
One(cls) == [plus |-> FALSE, cls |-> cls]

Plus(cls) == [plus |-> TRUE, cls |-> cls]

HeaderPattern ==
    <<One(Digits), One(Digits), One({"-"}), One(Digits), One(Digits), Plus(Spaces),
      One(Digits), One(Digits), One({":"}), One(Digits), One(Digits), One({":"}),
      One(Digits), One(Digits), One({"."}), One(Digits), One(Digits), One(Digits),
      Plus(Spaces), Plus(Digits), Plus(Spaces), Plus(Digits), Plus(Spaces),
      One(Priorities)>>

\* indexes of the tokens that start the groups pid, tid and priority, and of
\* the whitespace that ends the timestamp
TimestampEndToken == 19

PidToken == 20

TidToken == 22

PriorityToken == 24

\* Matches tokens k.. of HeaderPattern from s[i] on.  The result is <<>> when
\* there is no match, else the positions at which each token starts, followed
\* by the position after the last one.  A token that repeats is greedy; the
\* token after it never accepts a character of its class, so the greedy
\* match is the only one.
RECURSIVE MatchHeader(_, _, _, _)
MatchHeader(s, i, k, starts) ==
    IF k > Len(HeaderPattern) THEN Append(starts, i)
    ELSE IF i > Len(s) \/ s[i] \notin HeaderPattern[k].cls THEN <<>>
    ELSE IF HeaderPattern[k].plus
         THEN Let(LAMBDA j : MatchHeader(s, j, k + 1, Append(starts, i)),
                  i + Run(s, i, HeaderPattern[k].cls))
         ELSE MatchHeader(s, i + 1, k + 1, Append(starts, i))

\* ParseAfterHeader without the .strip() of tag and message
ParseAfterHeader_NoStrip(line, starts) ==
    LET prioAt == starts[PriorityToken]
        a      == prioAt + 1
        w      == Run(line, a, Spaces)
        colon  == Find(line, a, ":")
        n      == colon - a
        j      == IF n > w THEN w ELSE w - 1
        ok     == w >= 1 /\ colon > 0 /\ n >= 2
        msgAt  == colon + 1 + Run(line, colon + 1, Spaces)
    IN  IF starts = <<>> \/ ~ok THEN None
        ELSE Some([timestamp |-> SubSeq(line, 1, starts[TimestampEndToken] - 1),
                   pid       |-> SubSeq(line, starts[PidToken], starts[PidToken + 1] - 1),
                   tid       |-> SubSeq(line, starts[TidToken], starts[TidToken + 1] - 1),
                   priority  |-> line[prioAt],
                   severity  |-> PRIORITY_MAP(line[prioAt]),
                   tag       |-> SubSeq(line, a + j, colon - 1),
                   message   |-> SubSeq(line, msgAt, Len(line)),
                   raw       |-> line])

\* The rest of the pattern, \s+([^:]+):\s*(.*), from the position a after the
\* priority, and the dict parse_logcat_line returns.  [^:] matches whitespace
\* too: when only whitespace precedes the first colon, \s+ gives one
\* character back to the tag.
ParseAfterHeader(line, starts) ==
    LET prioAt == starts[PriorityToken]
        a      == prioAt + 1
        w      == Run(line, a, Spaces)
        colon  == Find(line, a, ":")
        n      == colon - a
        j      == IF n > w THEN w ELSE w - 1
        ok     == w >= 1 /\ colon > 0 /\ n >= 2
        msgAt  == colon + 1 + Run(line, colon + 1, Spaces)
    IN  IF starts = <<>> \/ ~ok THEN None
        ELSE Some([timestamp |-> SubSeq(line, 1, starts[TimestampEndToken] - 1),
                   pid       |-> SubSeq(line, starts[PidToken], starts[PidToken + 1] - 1),
                   tid       |-> SubSeq(line, starts[TidToken], starts[TidToken + 1] - 1),
                   priority  |-> line[prioAt],
                   severity  |-> PRIORITY_MAP(line[prioAt]),
                   tag       |-> Strip(SubSeq(line, a + j, colon - 1)),
                   message   |-> Strip(SubSeq(line, msgAt, Len(line))),
                   raw       |-> line])

ParseLogcatLine(line) ==
    LET AfterHeader(starts) == ParseAfterHeader(line, starts)
    IN  Let(AfterHeader, MatchHeader(line, 1, 1, <<>>))

(***************************************************************************)
(* LogMonitor.classify_log_line                                            *)
(***************************************************************************)
\* ClassifyLogLine by the record's "severity", which PRIORITY_MAP gave (F is "fatal")
ClassifyLogLine_ByMap(parsed) == parsed.severity

ClassifyLogLine(parsed) ==
    LET priority == parsed.priority
    IN  IF priority \in {"E", "F"} THEN "error"
        ELSE IF priority = "W" THEN "warning"
        ELSE IF priority = "I" THEN "info"
        ELSE IF priority = "D" THEN "debug"
        ELSE "verbose"

(***************************************************************************)
(* The LogMonitor object (LogMonitor.__init__)                             *)
(***************************************************************************)
Severities == {"error", "warning", "info", "debug", "verbose"}

DefaultSeverityFilter == {"error", "warning", "info", "debug"}

NewLogMonitor(app_package, severity_filter) ==
    [app_package     |-> app_package,
     severity_filter |-> IF severity_filter = {} THEN DefaultSeverityFilter
                         ELSE severity_filter,
     log_lines       |-> <<>>,
     errors          |-> <<>>,
     warnings        |-> <<>>,
     info_messages   |-> <<>>,
     error_count     |-> 0,
     warning_count   |-> 0,
     info_count      |-> 0,
     debug_count     |-> 0,
     verbose_count   |-> 0,
     total_lines     |-> 0,
     seen_messages   |-> {},
     log_process     |-> FALSE,
     interrupted     |-> FALSE]

(***************************************************************************)
(* LogMonitor.deduplicate_message                                          *)
(***************************************************************************)
\* Signature without the removal of digits
Signature_KeepDigits(message, tag) ==
    LET Normalise(signature) == Strip(Let(SubSpaces, signature))
    IN  Let(Normalise, tag \o <<":">> \o message)

\* Signature with the digits removed from the message only
Signature_MessageDigitsOnly(message, tag) ==
    LET Normalise(signature) == Strip(Let(SubSpaces, signature))
    IN  Let(Normalise, tag \o <<":">> \o Let(SubDigits, message))

\* signature = f"{tag}:{message}", digits removed, whitespace runs collapsed, stripped
Signature(message, tag) ==
    LET Normalise(signature) == Strip(Let(SubSpaces, Let(SubDigits, signature)))
    IN  Let(Normalise, tag \o <<":">> \o message)

\* DeduplicateMessage without self.seen_messages.add(signature)
DeduplicateMessage_NoAdd(seen_messages, message, tag) ==
    [ret |-> Signature(message, tag) \notin seen_messages, seen_messages |-> seen_messages]

\* ret is the value returned, seen_messages the set after the call
DeduplicateMessage(seen_messages, message, tag) ==
    LET signature == Signature(message, tag)
    IN  IF signature \in seen_messages
        THEN [ret |-> FALSE, seen_messages |-> seen_messages]
        ELSE [ret |-> TRUE, seen_messages |-> seen_messages \cup {signature}]

(***************************************************************************)
(* LogMonitor.process_log_line                                             *)
(***************************************************************************)
InfoCap == 20

\* f"[{parsed['tag']}] {parsed['message']}"
Entry(parsed) == <<"[">> \o parsed.tag \o <<"]", " ">> \o parsed.message

\* ProcessParsed with error_count and warning_count counting duplicates too
ProcessParsed_CountOccurrences(m1, parsed) ==
    LET severity == ClassifyLogLine(parsed)
        Store(dedup) ==
            LET m2 == [m1 EXCEPT !.seen_messages = dedup.seen_messages]
            IN  IF severity = "error"
                THEN [m2 EXCEPT !.error_count = @ + 1,
                                !.errors = IF dedup.ret THEN Append(@, Entry(parsed)) ELSE @]
                ELSE [m2 EXCEPT !.warning_count = @ + 1,
                                !.warnings = IF dedup.ret THEN Append(@, Entry(parsed)) ELSE @]
    IN  IF severity \notin m1.severity_filter THEN m1
        ELSE IF severity \in {"error", "warning"}
             THEN Let(Store, DeduplicateMessage(m1.seen_messages, parsed.message, parsed.tag))
        ELSE IF severity = "info"
             THEN [m1 EXCEPT !.info_count = @ + 1,
                             !.info_messages =
                                 IF Len(@) < InfoCap THEN Append(@, Entry(parsed)) ELSE @]
        ELSE IF severity = "debug"
             THEN [m1 EXCEPT !.debug_count = @ + 1]
        ELSE [m1 EXCEPT !.verbose_count = @ + 1]

\* ProcessParsed with one signature set per severity: the priority
\* character is made part of the tag the signature is built from
ProcessParsed_SetPerSeverity(m1, parsed) ==
    LET severity == ClassifyLogLine(parsed)
        Store(dedup) ==
            LET m2 == [m1 EXCEPT !.seen_messages = dedup.seen_messages]
            IN  IF ~dedup.ret THEN m2
                ELSE IF severity = "error"
                     THEN [m2 EXCEPT !.error_count = @ + 1,
                                     !.errors = Append(@, Entry(parsed))]
                     ELSE [m2 EXCEPT !.warning_count = @ + 1,
                                     !.warnings = Append(@, Entry(parsed))]
    IN  IF severity \notin m1.severity_filter THEN m1
        ELSE IF severity \in {"error", "warning"}
             THEN Let(Store, DeduplicateMessage(m1.seen_messages, parsed.message,
                                                <<parsed.priority>> \o parsed.tag))
        ELSE IF severity = "info"
             THEN [m1 EXCEPT !.info_count = @ + 1,
                             !.info_messages =
                                 IF Len(@) < InfoCap THEN Append(@, Entry(parsed)) ELSE @]
        ELSE IF severity = "debug"
             THEN [m1 EXCEPT !.debug_count = @ + 1]
        ELSE [m1 EXCEPT !.verbose_count = @ + 1]

\* ProcessParsed with info_count incremented only when the entry is stored
ProcessParsed_InfoCountStored(m1, parsed) ==
    LET severity == ClassifyLogLine(parsed)
        Store(dedup) ==
            LET m2 == [m1 EXCEPT !.seen_messages = dedup.seen_messages]
            IN  IF ~dedup.ret THEN m2
                ELSE IF severity = "error"
                     THEN [m2 EXCEPT !.error_count = @ + 1,
                                     !.errors = Append(@, Entry(parsed))]
                     ELSE [m2 EXCEPT !.warning_count = @ + 1,
                                     !.warnings = Append(@, Entry(parsed))]
    IN  IF severity \notin m1.severity_filter THEN m1
        ELSE IF severity \in {"error", "warning"}
             THEN Let(Store, DeduplicateMessage(m1.seen_messages, parsed.message, parsed.tag))
        ELSE IF severity = "info"
             THEN IF Len(m1.info_messages) < InfoCap
                  THEN [m1 EXCEPT !.info_count = @ + 1,
                                  !.info_messages = Append(@, Entry(parsed))]
                  ELSE m1
        ELSE IF severity = "debug"
             THEN [m1 EXCEPT !.debug_count = @ + 1]
        ELSE [m1 EXCEPT !.verbose_count = @ + 1]

\* process_log_line from the line "severity = self.classify_log_line(parsed)" on;
\* m1 is the object after the raw line has been stored
ProcessParsed(m1, parsed) ==
    LET severity == ClassifyLogLine(parsed)
        Store(dedup) ==
            LET m2 == [m1 EXCEPT !.seen_messages = dedup.seen_messages]
            IN  IF ~dedup.ret THEN m2
                ELSE IF severity = "error"
                     THEN [m2 EXCEPT !.error_count = @ + 1,
                                     !.errors = Append(@, Entry(parsed))]
                     ELSE [m2 EXCEPT !.warning_count = @ + 1,
                                     !.warnings = Append(@, Entry(parsed))]
    IN  IF severity \notin m1.severity_filter THEN m1
        ELSE IF severity \in {"error", "warning"}
             THEN Let(Store, DeduplicateMessage(m1.seen_messages, parsed.message, parsed.tag))
        ELSE IF severity = "info"
             THEN [m1 EXCEPT !.info_count = @ + 1,
                             !.info_messages =
                                 IF Len(@) < InfoCap THEN Append(@, Entry(parsed)) ELSE @]
        ELSE IF severity = "debug"
             THEN [m1 EXCEPT !.debug_count = @ + 1]
        ELSE [m1 EXCEPT !.verbose_count = @ + 1]

\* ProcessLogLine that stores a line that does not parse without counting it
ProcessLogLine_UnparsedNotCounted(m, line) ==
    LET Record(opt) ==
            IF opt = None
            THEN [m EXCEPT !.log_lines = Append(@, line)]
            ELSE ProcessParsed([m EXCEPT !.total_lines = @ + 1,
                                         !.log_lines = Append(@, opt[1].raw)],
                               opt[1])
    IN  IF Strip(line) = <<>> THEN m
        ELSE Let(Record, ParseLogcatLine(line))

\* ProcessLogLine without the early return for blank lines
ProcessLogLine_KeepBlank(m, line) ==
    LET Record(opt) ==
            IF opt = None
            THEN [m EXCEPT !.log_lines = Append(@, line), !.total_lines = @ + 1]
            ELSE ProcessParsed([m EXCEPT !.total_lines = @ + 1,
                                         !.log_lines = Append(@, opt[1].raw)],
                               opt[1])
    IN  Let(Record, ParseLogcatLine(line))

ProcessLogLine(m, line) ==
    LET Record(opt) ==
            IF opt = None
            THEN [m EXCEPT !.log_lines = Append(@, line), !.total_lines = @ + 1]
            ELSE ProcessParsed([m EXCEPT !.total_lines = @ + 1,
                                         !.log_lines = Append(@, opt[1].raw)],
                               opt[1])
    IN  IF Strip(line) = <<>> THEN m
        ELSE Let(Record, ParseLogcatLine(line))

(***************************************************************************)
(* LogMonitor.get_summary and LogMonitor.get_json_output                   *)
(***************************************************************************)
SummaryTop == 5

DisplayWidth == 120

JsonTop == 20

RecentCap == 50

\* str(n) for n >= 0
RECURSIVE Str(_)
Str(n) ==
    LET d == <<"0", "1", "2", "3", "4", "5", "6", "7", "8", "9">>[(n % 10) + 1]
    IN  IF n < 10 THEN <<d>> ELSE Str(n \div 10) \o <<d>>

\* [f(x) for x in s]
MapSeq(s, f(_)) == [i \in 1..Len(s) |-> f(s[i])]

\* ErrorRow without the truncation
ErrorRow_Full(error) == <<" ", " ", "X", " ">> \o error

\* f"  X {error[:120]}" (X stands for the cross mark the code prints)
ErrorRow(error) == <<" ", " ", "X", " ">> \o Take(error, DisplayWidth)

\* f"  !  {warning[:120]}" (! stands for the warning sign the code prints)
WarningRow(warning) == <<" ", " ", "!", " ", " ">> \o Take(warning, DisplayWidth)

\* the list `lines` that get_summary joins with "\n"
GetSummary(m, verbose) ==
    LET header ==
            IF m.app_package # None
            THEN <<"L", "o", "g", "s", " ", "f", "o", "r", ":", " ">> \o m.app_package[1]
            ELSE <<"L", "o", "g", "s", " ", "f", "o", "r", ":", " ", "A", "l", "l", " ",
                   "p", "r", "o", "c", "e", "s", "s", "e", "s">>
        total ==
            <<"T", "o", "t", "a", "l", " ", "l", "i", "n", "e", "s", ":", " ">>
                \o Str(m.total_lines)
        counts ==
            <<"E", "r", "r", "o", "r", "s", ":", " ">> \o Str(m.error_count)
                \o <<",", " ", "W", "a", "r", "n", "i", "n", "g", "s", ":", " ">>
                \o Str(m.warning_count)
                \o <<",", " ", "I", "n", "f", "o", ":", " ">> \o Str(m.info_count)
        top_errors ==
            IF m.errors = <<>> THEN <<>>
            ELSE << <<"\n", "T", "o", "p", " ", "E", "r", "r", "o", "r", "s", " ", "(">>
                        \o Str(Len(m.errors)) \o <<")", ":">> >>
                 \o MapSeq(Take(m.errors, SummaryTop), ErrorRow)
        top_warnings ==
            IF m.warnings = <<>> THEN <<>>
            ELSE << <<"\n", "T", "o", "p", " ", "W", "a", "r", "n", "i", "n", "g", "s", " ", "(">>
                        \o Str(Len(m.warnings)) \o <<")", ":">> >>
                 \o MapSeq(Take(m.warnings, SummaryTop), WarningRow)
        recent ==
            IF verbose /\ m.log_lines # <<>>
            THEN << <<"\n", "=", "=", "=", " ", "R", "e", "c", "e", "n", "t", " ", "L", "o", "g",
                      " ", "L", "i", "n", "e", "s", " ", "=", "=", "=">> >>
                 \o Last(m.log_lines, RecentCap)
            ELSE <<>>
    IN  <<header, total, counts>> \o top_errors \o top_warnings \o recent

\* GetJsonOutput with the first lines as sample_logs instead of the last
GetJsonOutput_First(m) ==
    [app_package |-> m.app_package,
     statistics  |-> [total_lines |-> m.total_lines,
                      errors      |-> m.error_count,
                      warnings    |-> m.warning_count,
                      info        |-> m.info_count,
                      debug       |-> m.debug_count,
                      verbose     |-> m.verbose_count],
     errors      |-> Take(m.errors, JsonTop),
     warnings    |-> Take(m.warnings, JsonTop),
     sample_logs |-> Take(m.log_lines, RecentCap)]

GetJsonOutput(m) ==
    [app_package |-> m.app_package,
     statistics  |-> [total_lines |-> m.total_lines,
                      errors      |-> m.error_count,
                      warnings    |-> m.warning_count,
                      info        |-> m.info_count,
                      debug       |-> m.debug_count,
                      verbose     |-> m.verbose_count],
     errors      |-> Take(m.errors, JsonTop),
     warnings    |-> Take(m.warnings, JsonTop),
     sample_logs |-> Last(m.log_lines, RecentCap)]

(***************************************************************************)
(* Input lines.  LogLine(p, rest) is the logcat line                       *)
(* "01-01 00:00:00.000 1 1 <p> <rest>".                                    *)
(***************************************************************************)
Stamp == <<"0", "1", "-", "0", "1", " ", "0", "0", ":", "0", "0", ":", "0", "0", ".",
           "0", "0", "0", " ", "1", " ", "1", " ">>

LogLine(p, rest) == Stamp \o <<p, " ">> \o rest

\* "TagA: boom 1", "TagA: boom 2": the same signature
BoomOne == <<"T", "a", "g", "A", ":", " ", "b", "o", "o", "m", " ", "1">>

BoomTwo == <<"T", "a", "g", "A", ":", " ", "b", "o", "o", "m", " ", "2">>

\* "TagB: ok"
TagBOk == <<"T", "a", "g", "B", ":", " ", "o", "k">>

\* "T: v"
TagTv == <<"T", ":", " ", "v">>

\* "junk": not a logcat line
Junk == <<"j", "u", "n", "k">>

ErrOne == LogLine("E", BoomOne)

ErrTwo == LogLine("E", BoomTwo)

WarnTwo == LogLine("W", BoomTwo)

FatalOk == LogLine("F", TagBOk)

InfoOk == LogLine("I", TagBOk)

DebugV == LogLine("D", TagTv)

VerboseV == LogLine("V", TagTv)

\* lines process_log_line is applied to in SpecSession
SessionLines ==
    {ErrOne, ErrTwo, WarnTwo, FatalOk, InfoOk, DebugV, VerboseV, Junk, <<>>, <<" ">>}

\* severity_filter arguments of LogMonitor(...); {} is "not given"
SessionFilters == {{}, {"error"}, {"warning", "verbose"}}

(***************************************************************************)
(* State                                                                   *)
(***************************************************************************)
VARIABLES
    monitor,           \* the LogMonitor object
    prev,              \* the LogMonitor object as it was before the last call on it
    last_line,         \* the argument of the last process_log_line call, None before any
    steps,             \* number of direct method calls made so far
    calls,             \* the direct calls of the pure methods: arguments and ret
    pc,                \* position of the main thread in main / stream_logs
    args,              \* the parsed command line: duration (optional str), follow
    duration,          \* main's duration: None or Some(seconds)
    proc,              \* the source process: "none", "running", "terminating", "exited"
    terminate_called,  \* log_process.terminate() has been called
    pipe,              \* lines the source has written and readline has not returned yet
    emitted,           \* number of lines the source has written
    now,               \* the clock, in seconds since it is first read
    start_time,        \* stream_logs' start_time: None or Some(clock value)
    handler,           \* signal_handler is installed for SIGINT
    line,              \* the loop variable of stream_logs
    echoed,            \* lines printed by the follow-mode echo
    success,           \* what stream_logs returned: None or Some(BOOLEAN)
    sigints,           \* number of SIGINTs delivered
    sigint_pc,         \* where the main thread was at the last SIGINT, None before any
    cmd,               \* stream_logs' cmd after "logcat": None until it is built
    written,           \* every line the source has written, in order
    left_loop,         \* how stream_logs left its loop, None while it has not
    report             \* what main printed as the report: None or Some(report)

session == <<monitor, prev, last_line, steps, calls>>

control == <<pc, args, duration, proc, terminate_called, pipe, emitted, now, start_time,
             handler, line, echoed, success, sigints, sigint_pc, cmd, written, left_loop,
             report>>

vars == <<monitor, prev, last_line, steps, calls, pc, args, duration, proc,
          terminate_called, pipe, emitted, now, start_time, handler, line, echoed,
          success, sigints, sigint_pc, cmd, written, left_loop, report>>

\* the control state of a LogMonitor nobody streams with
Idle ==
    /\ pc = "idle"
    /\ args = [duration |-> None, follow |-> FALSE, app_package |-> None]
    /\ duration = None
    /\ proc = "none"
    /\ terminate_called = FALSE
    /\ pipe = <<>>
    /\ emitted = 0
    /\ now = 0
    /\ start_time = None
    /\ handler = FALSE
    /\ line = <<>>
    /\ echoed = <<>>
    /\ success = None
    /\ sigints = 0
    /\ sigint_pc = None
    /\ cmd = None
    /\ written = <<>>
    /\ left_loop = None
    /\ report = None

\* calls made on one LogMonitor in the specifications that call its methods directly
MaxCalls == 3

(***************************************************************************)
(* SpecSession: process_log_line called on a LogMonitor with any sequence  *)
(* of at most MaxCalls lines of SessionLines                               *)
(***************************************************************************)
InitSession ==
    /\ \E f \in SessionFilters : monitor = NewLogMonitor(None, f)
    /\ prev = monitor
    /\ last_line = None
    /\ steps = 0
    /\ calls = <<>>
    /\ Idle

ProcessLine ==
    \E ln \in SessionLines :
        /\ steps < MaxCalls
        /\ monitor' = ProcessLogLine(monitor, ln)
        /\ prev' = monitor
        /\ last_line' = Some(ln)
        /\ steps' = steps + 1
        /\ UNCHANGED <<calls, control>>

NextSession == ProcessLine

SpecSession == InitSession /\ [][NextSession]_vars

(***************************************************************************)
(* SpecVolume: process_log_line called with each line of a long stream,    *)
(* in order; pipe holds the lines still to come                            *)
(***************************************************************************)
MaxVolume == 52

\* the first n lines of the stream that repeats `base` for ever
Cycle(base, n) == [i \in 1..n |-> base[((i - 1) % Len(base)) + 1]]

\* n lines, errors and warnings in turn, with tag "T" and a message of
\* 3 * (n - i + 1) letters in line i: all signatures differ, the first
\* entries are the longest
LongStream(n) ==
    [i \in 1..n |-> LogLine(IF i % 2 = 1 THEN "E" ELSE "W",
                            <<"T", ":", " ">> \o [k \in 1..(3 * (n - i + 1)) |-> "a"])]

VolumeStreams ==
    {Cycle(base, MaxVolume) :
        base \in {<<ErrOne, InfoOk>>, <<Junk>>, <<VerboseV, ErrTwo, DebugV>>, <<Junk, <<>>>>}}
        \cup {LongStream(MaxVolume)}

InitVolume ==
    /\ \E f \in SessionFilters : monitor = NewLogMonitor(None, f)
    /\ prev = monitor
    /\ last_line = None
    /\ steps = 0
    /\ calls = <<>>
    /\ pc = "idle"
    /\ args = [duration |-> None, follow |-> FALSE, app_package |-> None]
    /\ duration = None
    /\ proc = "none"
    /\ terminate_called = FALSE
    /\ pipe \in VolumeStreams
    /\ emitted = 0
    /\ now = 0
    /\ start_time = None
    /\ handler = FALSE
    /\ line = <<>>
    /\ echoed = <<>>
    /\ success = None
    /\ sigints = 0
    /\ sigint_pc = None
    /\ cmd = None
    /\ written = <<>>
    /\ left_loop = None
    /\ report = None

ProcessNext ==
    /\ pipe # <<>>
    /\ monitor' = ProcessLogLine(monitor, Head(pipe))
    /\ prev' = monitor
    /\ last_line' = Some(Head(pipe))
    /\ steps' = steps + 1
    /\ pipe' = Tail(pipe)
    /\ UNCHANGED <<calls, pc, args, duration, proc, terminate_called, emitted, now,
                   start_time, handler, line, echoed, success, sigints, sigint_pc, cmd,
                   written, left_loop, report>>

NextVolume == ProcessNext

SpecVolume == InitVolume /\ [][NextVolume]_vars

(***************************************************************************)
(* SpecDedup: deduplicate_message called on a LogMonitor with any sequence *)
(* of at most MaxDedupCalls pairs of DedupPairs                            *)
(***************************************************************************)
MaxDedupCalls == 4

\* "Tag", "Tag2", "Tab"
TagTag == <<"T", "a", "g">>

TagTag2 == <<"T", "a", "g", "2">>

TagTab == <<"T", "a", "b">>

\* "Failed at 12", "Failed at 99", "Failed  at 7", "ok"
FailedAt12 == <<"F", "a", "i", "l", "e", "d", " ", "a", "t", " ", "1", "2">>

FailedAt99 == <<"F", "a", "i", "l", "e", "d", " ", "a", "t", " ", "9", "9">>

FailedAt7 == <<"F", "a", "i", "l", "e", "d", " ", " ", "a", "t", " ", "7">>

Ok == <<"o", "k">>

DedupPairs ==
    {[tag |-> TagTag, message |-> FailedAt12],
     [tag |-> TagTag, message |-> FailedAt99],
     [tag |-> TagTag, message |-> FailedAt7],
     [tag |-> TagTag, message |-> Ok],
     [tag |-> TagTag2, message |-> Ok],
     [tag |-> TagTab, message |-> Ok]}

InitDedup ==
    /\ monitor = NewLogMonitor(None, {})
    /\ prev = monitor
    /\ last_line = None
    /\ steps = 0
    /\ calls = <<>>
    /\ Idle

Deduplicate ==
    \E p \in DedupPairs :
        /\ steps < MaxDedupCalls
        /\ \E r \in {DeduplicateMessage(monitor.seen_messages, p.message, p.tag)} :
               /\ monitor' = [monitor EXCEPT !.seen_messages = r.seen_messages]
               /\ calls' = Append(calls, [message |-> p.message, tag |-> p.tag, ret |-> r.ret])
        /\ prev' = monitor
        /\ steps' = steps + 1
        /\ UNCHANGED <<last_line, control>>

NextDedup == Deduplicate

SpecDedup == InitDedup /\ [][NextDedup]_vars

(***************************************************************************)
(* SpecDuration: parse_time_duration called once with str(n) followed by   *)
(* one of DurationSuffixes; calls records the argument and what it gave    *)
(***************************************************************************)
MaxDurationValue == 30

\* "s", "m", "h", "M", "x", "sec"
DurationSuffixes == {<<"s">>, <<"m">>, <<"h">>, <<"M">>, <<"x">>, <<"s", "e", "c">>}

InitDuration ==
    /\ monitor = NewLogMonitor(None, {})
    /\ prev = monitor
    /\ last_line = None
    /\ steps = 0
    /\ calls = <<>>
    /\ Idle

CallParseTimeDuration ==
    \E n \in 0..MaxDurationValue, suffix \in DurationSuffixes :
        /\ calls = <<>>
        /\ \E duration_str \in {Str(n) \o suffix} :
               calls' = <<[duration_str |-> duration_str,
                           ret |-> ParseTimeDuration(duration_str)]>>
        /\ steps' = steps + 1
        /\ UNCHANGED <<monitor, prev, last_line, control>>

NextDuration == CallParseTimeDuration

SpecDuration == InitDuration /\ [][NextDuration]_vars

(***************************************************************************)
(* SpecParse: parse_logcat_line called once with a line made of the header *)
(* "01-01 00:00:00.000 1 1 <p> ", p in ParsePriorities, and any text of at *)
(* most MaxRestLen characters of RestAlphabet                              *)
(***************************************************************************)
MaxRestLen == 5

RestAlphabet == {"a", " ", ":"}

Rests == UNION {[1..n -> RestAlphabet] : n \in 0..MaxRestLen}

InitParse ==
    /\ monitor = NewLogMonitor(None, {})
    /\ prev = monitor
    /\ last_line = None
    /\ steps = 0
    /\ calls = <<>>
    /\ Idle

\* the character in the place of the priority: the six of logcat and one that is none
ParsePriorities == Priorities \cup {"X"}

CallParseLogcatLine ==
    \E p \in ParsePriorities, rest \in Rests :
        /\ calls = <<>>
        /\ \E ln \in {LogLine(p, rest)} :
               calls' = <<[line |-> ln, ret |-> ParseLogcatLine(ln)]>>
        /\ steps' = steps + 1
        /\ UNCHANGED <<monitor, prev, last_line, control>>

NextParse == CallParseLogcatLine

SpecParse == InitParse /\ [][NextParse]_vars

(***************************************************************************)
(* SpecTags: deduplicate_message called twice on a new LogMonitor, with    *)
(* any tags of at most MaxTagLen characters of TagAlphabet and messages of *)
(* TagMessages                                                             *)
(***************************************************************************)
MaxTagLen == 2

TagAlphabet == {"a", "b", "1", " "}

Tags == UNION {[1..n -> TagAlphabet] : n \in 0..MaxTagLen}

\* "m", "m 7"
TagMessages == {<<"m">>, <<"m", " ", "7">>}

InitTags ==
    /\ monitor = NewLogMonitor(None, {})
    /\ prev = monitor
    /\ last_line = None
    /\ steps = 0
    /\ calls = <<>>
    /\ Idle

DeduplicateTagged ==
    \E tag \in Tags, message \in TagMessages :
        /\ Len(calls) <= 1
        /\ \E r \in {DeduplicateMessage(monitor.seen_messages, message, tag)} :
               /\ monitor' = [monitor EXCEPT !.seen_messages = r.seen_messages]
               /\ calls' = Append(calls, [message |-> message, tag |-> tag, ret |-> r.ret])
        /\ prev' = monitor
        /\ steps' = steps + 1
        /\ UNCHANGED <<last_line, control>>

NextTags == DeduplicateTagged

SpecTags == InitTags /\ [][NextTags]_vars

(***************************************************************************)
(* Spec: main, which parses --duration, calls stream_logs and exits, with  *)
(* the source process, the clock and SIGINT as its environment             *)
(***************************************************************************)
\* stream_logs: priority_letters, as a set
PriorityLetters(severity_filter) ==
    UNION {IF sev = "error" THEN {"E", "F"}
           ELSE IF sev = "warning" THEN {"W"}
           ELSE IF sev = "info" THEN {"I"}
           ELSE IF sev = "debug" THEN {"D"}
           ELSE IF sev = "verbose" THEN {"V"}
           ELSE {} : sev \in severity_filter}

priority_order == <<"V", "D", "I", "W", "E", "F">>

\* priority_order.index(p)
PriorityIndex(p) == CHOOSE i \in DOMAIN priority_order : priority_order[i] = p

\* MinPriority with max in the place of min
MinPriority_Highest(priority_letters) ==
    LET indexes == {PriorityIndex(p) : p \in priority_letters}
    IN  priority_order[CHOOSE i \in indexes : \A j \in indexes : i >= j]

\* priority_order[min(priority_order.index(p) for p in priority_letters)]
MinPriority(priority_letters) ==
    LET indexes == {PriorityIndex(p) : p \in priority_letters}
    IN  priority_order[CHOOSE i \in indexes : \A j \in indexes : i <= j]

\* what "Add severity filters" appends to cmd: "*:<min_priority>" or nothing
SeverityArgs(severity_filter) ==
    IF PriorityLetters(severity_filter) = {} THEN <<>>
    ELSE <<<<"*", ":", MinPriority(PriorityLetters(severity_filter))>>>>

\* "junk " with a trailing space
JunkSp == <<"j", "u", "n", "k", " ">>

\* lines the source process writes (without their newline)
StreamLines == {ErrOne, VerboseV, JunkSp, <<>>}

\* --duration values: "", "0s", "1s", "1sec", "5x"
DurationArgs == {<<>>, <<"0", "s">>, <<"1", "s">>, <<"1", "s", "e", "c">>, <<"5", "x">>}

\* "app": an --app-package value
AppPackage == <<"a", "p", "p">>

\* argparse: --follow and --duration are mutually exclusive
ArgSets ==
    {[duration |-> None, follow |-> f, app_package |-> None] : f \in BOOLEAN}
        \cup {[duration |-> Some(d), follow |-> FALSE, app_package |-> None] :
                 d \in DurationArgs}
        \cup {[duration |-> None, follow |-> FALSE, app_package |-> Some(AppPackage)]}

MaxEmit == 2

MaxPipe == 1

MaxTime == 1

MaxSigints == 1

\* main has parsed the command line `a` and built the LogMonitor
InitMain(a) ==
    /\ monitor = NewLogMonitor(a.app_package, {})
    /\ prev = monitor
    /\ last_line = None
    /\ steps = 0
    /\ calls = <<>>
    /\ pc = "main"
    /\ args = a
    /\ duration = None
    /\ proc = "none"
    /\ terminate_called = FALSE
    /\ pipe = <<>>
    /\ emitted = 0
    /\ now = 0
    /\ start_time = None
    /\ handler = FALSE
    /\ line = <<>>
    /\ echoed = <<>>
    /\ success = None
    /\ sigints = 0
    /\ sigint_pc = None
    /\ cmd = None
    /\ written = <<>>
    /\ left_loop = None
    /\ report = None

Init == \E a \in ArgSets : InitMain(a)

\* log_process.terminate(): SIGTERM to a process that has not exited
Terminate ==
    /\ terminate_called' = TRUE
    /\ proc' = IF proc = "running" THEN "terminating" ELSE proc

\* main: duration = monitor.parse_time_duration(args.duration) if args.duration
MainParseDuration ==
    /\ pc = "main"
    /\ IF args.duration # None /\ args.duration[1] # <<>>
       THEN LET r == ParseTimeDuration(args.duration[1])
            IN  IF r.ok
                THEN duration' = Some(r.seconds) /\ pc' = "clear"
                ELSE duration' = duration /\ pc' = "ValueError"
       ELSE duration' = duration /\ pc' = "clear"
    /\ UNCHANGED <<session, args, proc, terminate_called, pipe, emitted, now, start_time,
                   handler, line, echoed, success, sigints, sigint_pc, cmd, written,
                   left_loop, report>>

\* stream_logs: the "logcat -c" pre-step.  CalledProcessError is ignored,
\* any other exception of subprocess.run leaves stream_logs.
StreamClear ==
    /\ pc = "clear"
    /\ \E clear_first \in BOOLEAN, outcome \in {"ok", "CalledProcessError", "OSError"} :
           pc' = IF clear_first /\ outcome = "OSError" THEN "raised" ELSE "pidof"
    /\ UNCHANGED <<session, args, duration, proc, terminate_called, pipe, emitted, now,
                   start_time, handler, line, echoed, success, sigints, sigint_pc, cmd,
                   written, left_loop, report>>

\* stream_logs: the "pidof" pre-step when app_package is set
StreamPidof ==
    /\ pc = "pidof"
    /\ \E outcome \in {"ok", "no pid", "CalledProcessError", "OSError"} :
           IF monitor.app_package # None /\ outcome = "OSError"
           THEN pc' = "raised" /\ cmd' = cmd
           ELSE /\ pc' = "signal"
                /\ cmd' = Some(<<<<"-", "v">>, <<"t", "i", "m", "e">>>>
                                \o (IF monitor.app_package # None /\ outcome = "ok"
                                    THEN <<<<"-", "-", "p", "i", "d", "=", "1">>>> ELSE <<>>)
                                \o SeverityArgs(monitor.severity_filter))
    /\ UNCHANGED <<session, args, duration, proc, terminate_called, pipe, emitted, now,
                   start_time, handler, line, echoed, success, sigints, sigint_pc,
                   written, left_loop, report>>

\* signal.signal(signal.SIGINT, signal_handler)
InstallHandler ==
    /\ pc = "signal"
    /\ handler' = TRUE
    /\ pc' = "popen"
    /\ UNCHANGED <<session, args, duration, proc, terminate_called, pipe, emitted, now,
                   start_time, line, echoed, success, sigints, sigint_pc, cmd, written,
                   left_loop, report>>

\* self.log_process = subprocess.Popen(...), which may raise
Popen ==
    /\ pc = "popen"
    /\ \/ /\ monitor' = [monitor EXCEPT !.log_process = TRUE]
          /\ proc' = "running"
          /\ pc' = "start_time"
       \/ /\ pc' = "except"
          /\ UNCHANGED <<monitor, proc>>
    /\ UNCHANGED <<prev, last_line, steps, calls, args, duration, terminate_called, pipe,
                   emitted, now, start_time, handler, line, echoed, success, sigints,
                   sigint_pc, cmd, written, left_loop, report>>

\* start_time = datetime.now()
StartTime ==
    /\ pc = "start_time"
    /\ start_time' = Some(now)
    /\ pc' = "read"
    /\ UNCHANGED <<session, args, duration, proc, terminate_called, pipe, emitted, now,
                   handler, line, echoed, success, sigints, sigint_pc, cmd, written,
                   left_loop, report>>

\* ReadLine returning the line written last instead of the one written first
ReadLine_Newest ==
    /\ pc = "read"
    /\ \/ /\ pipe # <<>>
          /\ line' = pipe[Len(pipe)]
          /\ pipe' = SubSeq(pipe, 1, Len(pipe) - 1)
          /\ pc' = "process"
          /\ UNCHANGED left_loop
       \/ /\ pipe # <<>>
          /\ pipe' = Tail(pipe)
          /\ pc' = "except"
          /\ UNCHANGED <<line, left_loop>>
       \/ /\ pipe = <<>>
          /\ proc = "exited"
          /\ pc' = "wait"
          /\ left_loop' = Some("eof")
          /\ UNCHANGED <<pipe, line>>
    /\ UNCHANGED <<session, args, duration, proc, terminate_called, emitted, now,
                   start_time, handler, echoed, success, sigints, sigint_pc, cmd, written,
                   report>>

\* self.log_process.stdout.readline(): the next line, "" at end of file (the
\* process has exited and the pipe is empty), or an exception; it blocks
\* while the pipe is empty and the process lives
ReadLine ==
    /\ pc = "read"
    /\ \/ /\ pipe # <<>>
          /\ line' = Head(pipe)
          /\ pipe' = Tail(pipe)
          /\ pc' = "process"
          /\ UNCHANGED left_loop
       \/ /\ pipe # <<>>
          /\ pipe' = Tail(pipe)
          /\ pc' = "except"
          /\ UNCHANGED <<line, left_loop>>
       \/ /\ pipe = <<>>
          /\ proc = "exited"
          /\ pc' = "wait"
          /\ left_loop' = Some("eof")
          /\ UNCHANGED <<pipe, line>>
    /\ UNCHANGED <<session, args, duration, proc, terminate_called, emitted, now,
                   start_time, handler, echoed, success, sigints, sigint_pc, cmd, written,
                   report>>

\* self.process_log_line(line.rstrip())
Dispatch ==
    /\ pc = "process"
    /\ \E stripped \in {RStrip(line)} :
           /\ monitor' = ProcessLogLine(monitor, stripped)
           /\ prev' = monitor
           /\ last_line' = Some(stripped)
    /\ pc' = "echo"
    /\ UNCHANGED <<steps, calls, args, duration, proc, terminate_called, pipe, emitted,
                   now, start_time, handler, line, echoed, success, sigints, sigint_pc,
                   cmd, written, left_loop, report>>

\* Echo that prints every line that parses, whatever its severity
Echo_AnyParsed ==
    /\ pc = "echo"
    /\ \E stripped \in {RStrip(line)} :
           \E parsed \in {ParseLogcatLine(stripped)} :
               echoed' = IF args.follow /\ parsed # None
                         THEN Append(echoed, stripped)
                         ELSE echoed
    /\ pc' = "check_duration"
    /\ UNCHANGED <<session, args, duration, proc, terminate_called, pipe, emitted, now,
                   start_time, handler, line, success, sigints, sigint_pc, cmd, written,
                   left_loop, report>>

\* if follow: the line, parsed again, is printed when its severity is in the filter
Echo ==
    /\ pc = "echo"
    /\ \E stripped \in {RStrip(line)} :
           \E parsed \in {ParseLogcatLine(stripped)} :
               echoed' = IF /\ args.follow
                            /\ parsed # None
                            /\ ClassifyLogLine(parsed[1]) \in monitor.severity_filter
                         THEN Append(echoed, stripped)
                         ELSE echoed
    /\ pc' = "check_duration"
    /\ UNCHANGED <<session, args, duration, proc, terminate_called, pipe, emitted, now,
                   start_time, handler, line, success, sigints, sigint_pc, cmd, written,
                   left_loop, report>>

\* (datetime.now() - start_time).total_seconds()
Elapsed == now - start_time[1]

\* if duration and elapsed >= duration: break.  None and 0 are both falsy.
DurationReached == duration # None /\ duration[1] # 0 /\ Elapsed >= duration[1]

CheckDuration ==
    /\ pc = "check_duration"
    /\ pc' = IF DurationReached THEN "wait" ELSE "check_interrupted"
    /\ left_loop' = IF DurationReached THEN Some("duration") ELSE left_loop
    /\ UNCHANGED <<session, args, duration, proc, terminate_called, pipe, emitted, now,
                   start_time, handler, line, echoed, success, sigints, sigint_pc, cmd,
                   written, report>>

\* if self.interrupted: break
CheckInterrupted ==
    /\ pc = "check_interrupted"
    /\ pc' = IF monitor.interrupted THEN "wait" ELSE "read"
    /\ left_loop' = IF monitor.interrupted THEN Some("interrupted") ELSE left_loop
    /\ UNCHANGED <<session, args, duration, proc, terminate_called, pipe, emitted, now,
                   start_time, handler, line, echoed, success, sigints, sigint_pc, cmd,
                   written, report>>

\* Wait that first processes one more line of the pipe, when there is one
Wait_OneMoreLine ==
    /\ pc = "wait"
    /\ proc = "exited"
    /\ monitor' = IF pipe = <<>> THEN monitor ELSE ProcessLogLine(monitor, RStrip(Head(pipe)))
    /\ success' = Some(TRUE)
    /\ pc' = "finally"
    /\ UNCHANGED <<prev, last_line, steps, calls, args, duration, proc, terminate_called,
                   pipe, emitted, now, start_time, handler, line, echoed, sigints,
                   sigint_pc, cmd, written, left_loop, report>>

\* self.log_process.wait(); return True.  wait() blocks until the process has exited.
Wait ==
    /\ pc = "wait"
    /\ proc = "exited"
    /\ success' = Some(TRUE)
    /\ pc' = "finally"
    /\ UNCHANGED <<session, args, duration, proc, terminate_called, pipe, emitted, now,
                   start_time, handler, line, echoed, sigints, sigint_pc, cmd, written,
                   left_loop, report>>

\* except Exception: print the error, return False
Except ==
    /\ pc = "except"
    /\ success' = Some(FALSE)
    /\ left_loop' = Some("exception")
    /\ pc' = "finally"
    /\ UNCHANGED <<session, args, duration, proc, terminate_called, pipe, emitted, now,
                   start_time, handler, line, echoed, sigints, sigint_pc, cmd, written,
                   report>>

\* Finally without the terminate() call
Finally_NoTerminate ==
    /\ pc = "finally"
    /\ pc' = "returned"
    /\ UNCHANGED <<session, args, duration, proc, terminate_called, pipe, emitted, now,
                   start_time, handler, line, echoed, success, sigints, sigint_pc, cmd,
                   written, left_loop, report>>

\* finally: if self.log_process: self.log_process.terminate()
Finally ==
    /\ pc = "finally"
    /\ IF monitor.log_process THEN Terminate ELSE UNCHANGED <<terminate_called, proc>>
    /\ pc' = "returned"
    /\ UNCHANGED <<session, args, duration, pipe, emitted, now, start_time, handler, line,
                   echoed, success, sigints, sigint_pc, cmd, written, left_loop, report>>

\* MainExit with the report printed whatever stream_logs returned and in follow mode too
MainExit_AlwaysReport ==
    /\ pc = "returned"
    /\ pc' = IF success = Some(TRUE) THEN "exit_0" ELSE "exit_1"
    /\ \E json, verbose \in BOOLEAN :
           report' = Some(IF json THEN [json |-> TRUE, out |-> GetJsonOutput(monitor)]
                          ELSE [json |-> FALSE, out |-> GetSummary(monitor, verbose)])
    /\ UNCHANGED <<session, args, duration, proc, terminate_called, pipe, emitted, now,
                   start_time, handler, line, echoed, success, sigints, sigint_pc, cmd,
                   written, left_loop>>

\* main after stream_logs: sys.exit(1) if it failed; else the report (args.json:
\* get_json_output, else get_summary(args.verbose)) unless in follow mode, and
\* sys.exit(0)
MainExit ==
    /\ pc = "returned"
    /\ IF success # Some(TRUE)
       THEN pc' = "exit_1" /\ report' = report
       ELSE /\ pc' = "exit_0"
            /\ IF args.follow
               THEN report' = report
               ELSE \E json, verbose \in BOOLEAN :
                        report' = Some(IF json
                                       THEN [json |-> TRUE, out |-> GetJsonOutput(monitor)]
                                       ELSE [json |-> FALSE,
                                             out |-> GetSummary(monitor, verbose)])
    /\ UNCHANGED <<session, args, duration, proc, terminate_called, pipe, emitted, now,
                   start_time, handler, line, echoed, success, sigints, sigint_pc, cmd,
                   written, left_loop>>

\* the Python process has ended
Exited == pc \in {"exit_0", "exit_1", "ValueError", "raised", "KeyboardInterrupt"}

\* Sigint with a signal_handler that only sets the flag
Sigint_FlagOnly ==
    /\ pc \notin {"exit_0", "exit_1", "ValueError", "raised", "KeyboardInterrupt"}
    /\ sigints < MaxSigints
    /\ sigints' = sigints + 1
    /\ sigint_pc' = Some(IF pc = "read" /\ pipe = <<>> /\ proc = "running"
                         THEN "read (blocked)" ELSE pc)
    /\ IF handler
       THEN monitor' = [monitor EXCEPT !.interrupted = TRUE] /\ pc' = pc
       ELSE pc' = "KeyboardInterrupt" /\ UNCHANGED monitor
    /\ UNCHANGED <<prev, last_line, steps, calls, args, duration, proc, terminate_called,
                   pipe, emitted, now, start_time, handler, line, echoed, success, cmd,
                   written, left_loop, report>>

\* Sigint with a signal_handler that also empties the signature set
Sigint_ClearsSeen ==
    /\ pc \notin {"exit_0", "exit_1", "ValueError", "raised", "KeyboardInterrupt"}
    /\ sigints < MaxSigints
    /\ sigints' = sigints + 1
    /\ sigint_pc' = Some(IF pc = "read" /\ pipe = <<>> /\ proc = "running"
                         THEN "read (blocked)" ELSE pc)
    /\ IF handler
       THEN /\ monitor' = [monitor EXCEPT !.interrupted = TRUE, !.seen_messages = {}]
            /\ IF monitor.log_process THEN Terminate
               ELSE UNCHANGED <<terminate_called, proc>>
            /\ pc' = pc
       ELSE /\ pc' = "KeyboardInterrupt"
            /\ UNCHANGED <<monitor, terminate_called, proc>>
    /\ UNCHANGED <<prev, last_line, steps, calls, args, duration, pipe, emitted, now,
                   start_time, handler, line, echoed, success, cmd, written, left_loop,
                   report>>

\* SIGINT.  With signal_handler installed it runs between two steps of the
\* main thread (also while readline or wait block); before that Python's
\* default handler raises KeyboardInterrupt, which nothing in main catches.
Sigint ==
    /\ ~Exited
    /\ sigints < MaxSigints
    /\ sigints' = sigints + 1
    /\ sigint_pc' = Some(IF pc = "read" /\ pipe = <<>> /\ proc = "running"
                         THEN "read (blocked)" ELSE pc)
    /\ IF handler
       THEN /\ monitor' = [monitor EXCEPT !.interrupted = TRUE]
            /\ IF monitor.log_process THEN Terminate
               ELSE UNCHANGED <<terminate_called, proc>>
            /\ pc' = pc
       ELSE /\ pc' = "KeyboardInterrupt"
            /\ UNCHANGED <<monitor, terminate_called, proc>>
    /\ UNCHANGED <<prev, last_line, steps, calls, args, duration, pipe, emitted, now,
                   start_time, handler, line, echoed, success, cmd, written, left_loop,
                   report>>

\* stream_logs is between the start of its loop and the wait() after it
Streaming == pc \in {"read", "process", "echo", "check_duration", "check_interrupted"}

\* the source process writes one of `lines` (what it writes after the loop
\* has ended is never read): at most max_emit lines in all, and at most
\* max_pipe waiting to be read
EmitUpTo(lines, max_emit, max_pipe) ==
    /\ proc \in {"running", "terminating"}
    /\ Streaming
    /\ emitted < max_emit
    /\ Len(pipe) < max_pipe
    /\ \E ln \in lines : pipe' = Append(pipe, ln) /\ written' = Append(written, ln)
    /\ emitted' = emitted + 1
    /\ UNCHANGED <<session, pc, args, duration, proc, terminate_called, now, start_time,
                   handler, line, echoed, success, sigints, sigint_pc, cmd, left_loop, report>>

EmitFrom(lines) == EmitUpTo(lines, MaxEmit, MaxPipe)

Emit == EmitFrom(StreamLines)

\* the source process exits: on its own, or after SIGTERM
ProcExit ==
    /\ proc \in {"running", "terminating"}
    /\ proc' = "exited"
    /\ UNCHANGED <<session, pc, args, duration, terminate_called, pipe, emitted, now,
                   start_time, handler, line, echoed, success, sigints, sigint_pc, cmd,
                   written, left_loop, report>>

\* a second passes (the clock is read in the loop only, relative to start_time)
Tick ==
    /\ start_time # None
    /\ Streaming
    /\ now < MaxTime
    /\ now' = now + 1
    /\ UNCHANGED <<session, pc, args, duration, proc, terminate_called, pipe, emitted,
                   start_time, handler, line, echoed, success, sigints, sigint_pc, cmd,
                   written, left_loop, report>>

MainThread ==
    \/ MainParseDuration
    \/ StreamClear
    \/ StreamPidof
    \/ InstallHandler
    \/ Popen
    \/ StartTime
    \/ ReadLine
    \/ Dispatch
    \/ Echo
    \/ CheckDuration
    \/ CheckInterrupted
    \/ Wait
    \/ Except
    \/ Finally
    \/ MainExit

Next ==
    \/ MainThread
    \/ Sigint
    \/ Emit
    \/ ProcExit
    \/ Tick

Spec == Init /\ [][Next]_vars

\* The source process exits once SIGTERM has been sent to it
TermExit == proc = "terminating" /\ ProcExit

\* FairSpec: the interpreter keeps running the main thread while it is not
\* blocked, and a process that was sent SIGTERM exits.  Nothing makes the
\* source write a line, exit on its own, or the user press Ctrl-C.
FairLines == {ErrOne, VerboseV}

FairArgSets == {a \in ArgSets : ~a.follow /\ a.duration \in {None, Some(<<"0", "s">>), Some(<<"1", "s">>)}}

InitFair == \E a \in FairArgSets : InitMain(a)

EmitFair == EmitFrom(FairLines)

NextFair ==
    \/ MainThread
    \/ Sigint
    \/ EmitFair
    \/ ProcExit
    \/ Tick

FairSpec == InitFair /\ [][NextFair]_vars /\ WF_vars(MainThread) /\ WF_vars(TermExit)

(***************************************************************************)
(* SpecThreshold: main up to the point where stream_logs has built cmd,    *)
(* for a LogMonitor made with any set of the names of FilterNames          *)
(***************************************************************************)
\* names --severity may carry; "fatal" is not a name stream_logs knows
FilterNames == Severities \cup {"fatal"}

InitThreshold ==
    /\ \E f \in SUBSET FilterNames : monitor = NewLogMonitor(None, f)
    /\ prev = monitor
    /\ last_line = None
    /\ steps = 0
    /\ calls = <<>>
    /\ pc = "main"
    /\ args = [duration |-> None, follow |-> FALSE, app_package |-> None]
    /\ duration = None
    /\ proc = "none"
    /\ terminate_called = FALSE
    /\ pipe = <<>>
    /\ emitted = 0
    /\ now = 0
    /\ start_time = None
    /\ handler = FALSE
    /\ line = <<>>
    /\ echoed = <<>>
    /\ success = None
    /\ sigints = 0
    /\ sigint_pc = None
    /\ cmd = None
    /\ written = <<>>
    /\ left_loop = None
    /\ report = None

NextThreshold ==
    \/ MainParseDuration
    \/ StreamClear
    \/ StreamPidof
    \/ InstallHandler

SpecThreshold == InitThreshold /\ [][NextThreshold]_vars

(***************************************************************************)
(* SpecOrder: main without a duration bound and without SIGINT, reading a  *)
(* source that writes up to MaxOrderEmit lines of OrderLines and may run   *)
(* up to MaxOrderPipe lines ahead of the reader                            *)
(***************************************************************************)
MaxOrderEmit == 3

MaxOrderPipe == 2

\* two errors of different signatures, a warning with the signature of the
\* first, a line that does not parse and ends with a space, an empty line
OrderLines == {ErrOne, FatalOk, WarnTwo, JunkSp, <<>>}

InitOrder ==
    \E f \in BOOLEAN : InitMain([duration |-> None, follow |-> f, app_package |-> None])

EmitOrder == EmitUpTo(OrderLines, MaxOrderEmit, MaxOrderPipe)

NextOrder ==
    \/ MainThread
    \/ EmitOrder
    \/ ProcExit

SpecOrder == InitOrder /\ [][NextOrder]_vars

(***************************************************************************)
(* Claims about stream_logs                                                *)
(***************************************************************************)
\* control is back with the caller of stream_logs (by return or by an exception)
StreamLogsLeft == pc \in {"returned", "exit_0", "exit_1", "raised"}

\* stream_logs has returned a value
StreamLogsReturned == pc \in {"returned", "exit_0", "exit_1"}

\* C1: whenever stream_logs has given control back to its caller and the
\* source process was started, terminate() has been called on it, so it is
\* not left running without a terminate request
C1_TerminatedBeforeReturn ==
    (StreamLogsLeft /\ proc # "none") => (terminate_called /\ proc # "running")

\* stream_logs returned False after a read error while the source was still
\* running and no SIGINT had come: the finally clause terminated it
C1_Witness ==
    /\ pc = "returned"
    /\ success = Some(FALSE)
    /\ proc = "terminating"
    /\ sigints = 0

\* a line has just been processed and the elapsed time is at or past the bound
BoundMetAfterLine ==
    pc = "check_duration" /\ duration # None /\ Elapsed >= duration[1]

\* C2: once a line has been processed with the elapsed time at or past the
\* duration bound, stream_logs eventually returns with the source
\* terminated, whatever the source does
C2_DurationStops == BoundMetAfterLine ~> (StreamLogsReturned /\ terminate_called)

\* C3: a SIGINT that arrives while readline is blocked on a silent source
\* leads to stream_logs returning with the source process gone
C3_CancelWhileIdle ==
    (sigint_pc = Some("read (blocked)")) ~> (StreamLogsReturned /\ proc = "exited")

\* the SIGINT came while readline was blocked, the source never wrote a line,
\* and stream_logs has returned True with the process gone
C3_Witness ==
    /\ sigint_pc = Some("read (blocked)")
    /\ emitted = 0
    /\ pc = "returned"
    /\ success = Some(TRUE)
    /\ proc = "exited"

(***************************************************************************)
(* Claims about process_log_line and the reports (SpecSession, SpecVolume) *)
(***************************************************************************)
Range(s) == {s[i] : i \in DOMAIN s}

\* the counters, lists and signature set of two LogMonitor states are the same
SameAggregates(a, b) ==
    /\ a.error_count = b.error_count
    /\ a.warning_count = b.warning_count
    /\ a.info_count = b.info_count
    /\ a.debug_count = b.debug_count
    /\ a.verbose_count = b.verbose_count
    /\ a.errors = b.errors
    /\ a.warnings = b.warnings
    /\ a.info_messages = b.info_messages
    /\ a.seen_messages = b.seen_messages

\* the last line processed parsed to an error or warning record that passed
\* the filter and whose signature was already in the signature set
LastWasDuplicate ==
    /\ last_line # None
    /\ \E opt \in {ParseLogcatLine(last_line[1])} :
           /\ opt # None
           /\ ClassifyLogLine(opt[1]) \in {"error", "warning"} \cap prev.severity_filter
           /\ Signature(opt[1].message, opt[1].tag) \in prev.seen_messages

\* C4: a duplicate error or warning record is not listed again but is still
\* counted in error_count or warning_count
C4_DuplicateStillCounted ==
    LastWasDuplicate =>
        /\ monitor.errors = prev.errors
        /\ monitor.warnings = prev.warnings
        /\ IF ClassifyLogLine(ParseLogcatLine(last_line[1])[1]) = "error"
           THEN monitor.error_count = prev.error_count + 1
           ELSE monitor.warning_count = prev.warning_count + 1

\* C5 as claimed: log_lines never holds more than 50 lines
C5_RingNeverExceedsCap == Len(monitor.log_lines) <= RecentCap

NonBlank(l) == Strip(l) # <<>>

\* C5 as amended: log_lines keeps every non-blank line processed, in arrival
\* order, without eviction; sample_logs of get_json_output holds at most 50
\* lines, the most recently stored ones in arrival order
C5_OnlyReportsAreCapped ==
    \E st \in VolumeStreams :
        /\ pipe = SubSeq(st, steps + 1, Len(st))
        /\ \E kept \in {SelectSeq(SubSeq(st, 1, steps), NonBlank)},
              sample \in {GetJsonOutput(monitor).sample_logs} :
               /\ monitor.log_lines = kept
               /\ Len(sample) = (IF Len(kept) < RecentCap THEN Len(kept) ELSE RecentCap)
               /\ \A i \in 1..Len(sample) : sample[i] = kept[Len(kept) - Len(sample) + i]

\* more than 50 lines are stored and the report leaves the oldest out
C5_Witness ==
    /\ Len(monitor.log_lines) = RecentCap + 1
    /\ Len(GetJsonOutput(monitor).sample_logs) = RecentCap
    /\ GetJsonOutput(monitor).sample_logs[1] = monitor.log_lines[2]

\* C6 as claimed: every line, blank ones included, is counted in total_lines
\* and stored, and a line that does not parse changes nothing else
C6_EveryLineStored ==
    last_line # None =>
        /\ monitor.total_lines = prev.total_lines + 1
        /\ monitor.log_lines = Append(prev.log_lines, last_line[1])
        /\ ParseLogcatLine(last_line[1]) = None => SameAggregates(prev, monitor)

\* C6 as amended: a line with a non-whitespace character is counted and
\* stored, and changes nothing else when it does not parse; an empty or
\* whitespace-only line changes nothing at all
C6_EveryNonBlankLineStored ==
    last_line # None =>
        IF NonBlank(last_line[1])
        THEN /\ monitor.total_lines = prev.total_lines + 1
             /\ monitor.log_lines = Append(prev.log_lines, last_line[1])
             /\ ParseLogcatLine(last_line[1]) = None => SameAggregates(prev, monitor)
        ELSE monitor = prev

\* a whitespace-only line was dropped after a line that does not parse was stored
C6_Witness ==
    /\ last_line = Some(<<" ">>)
    /\ monitor.log_lines = <<Junk>>
    /\ monitor.total_lines = 1
    /\ monitor.seen_messages = {}

\* the last line processed parsed to a record whose severity is not in the filter
LastWasFiltered ==
    /\ last_line # None
    /\ \E opt \in {ParseLogcatLine(last_line[1])} :
           opt # None /\ ClassifyLogLine(opt[1]) \notin prev.severity_filter

\* C7: a record whose severity is not in the filter changes no counter, list
\* or signature, and appears nowhere in what get_summary and get_json_output
\* render
C7_FilteredNeverRendered ==
    LastWasFiltered =>
        /\ SameAggregates(prev, monitor)
        /\ last_line[1] \notin Range(GetJsonOutput(monitor).sample_logs)
        /\ last_line[1] \notin Range(GetSummary(monitor, TRUE))
        /\ last_line[1] \notin Range(GetSummary(monitor, FALSE))

(***************************************************************************)
(* Claims about deduplicate_message (SpecDedup)                            *)
(***************************************************************************)
\* the calls made with the pair p
CallsWith(p) == {i \in DOMAIN calls : calls[i].tag = p.tag /\ calls[i].message = p.message}

CallSignature(i) == Signature(calls[i].message, calls[i].tag)

\* C8 as claimed: of the N > 1 calls made with one pair, whatever other
\* calls come between them, exactly the first returns True
C8_TrueOncePerPair ==
    \A p \in DedupPairs :
        Cardinality(CallsWith(p)) > 1 =>
            \A i \in CallsWith(p) : calls[i].ret <=> (\A j \in CallsWith(p) : i <= j)

\* C8 as amended: a call returns True exactly when no earlier call of the
\* session had the same signature (so at most one call per pair returns
\* True), and the signature set only grows
C8_TrueOncePerSignature ==
    /\ \A i \in DOMAIN calls :
           calls[i].ret <=> (\A j \in 1..(i - 1) : CallSignature(j) # CallSignature(i))
    /\ prev.seen_messages \subseteq monitor.seen_messages
    /\ monitor.seen_messages = {CallSignature(i) : i \in DOMAIN calls}

\* one pair was submitted three times with another pair in between: True, then False twice
C8_Witness ==
    /\ Len(calls) = 4
    /\ CallsWith([tag |-> TagTag, message |-> FailedAt12]) = {1, 3, 4}
    /\ calls[2].message = Ok
    /\ calls[1].ret /\ calls[2].ret /\ ~calls[3].ret /\ ~calls[4].ret

\* the characters of s that are not digits
NonDigits(s) == SelectSeq(s, LAMBDA c : c \notin Digits)

\* C9: two calls with the same tag and messages that differ only in their
\* digits compute the same signature, and the later one returns False
C9_NumeralInvariant ==
    \A i, j \in DOMAIN calls :
        (i < j /\ calls[i].tag = calls[j].tag
               /\ NonDigits(calls[i].message) = NonDigits(calls[j].message))
            => (CallSignature(i) = CallSignature(j) /\ ~calls[j].ret)

\* ("Tag", "Failed at 12") then ("Tag", "Failed at 99"): the second is a duplicate
C9_Witness ==
    /\ Len(calls) = 2
    /\ calls[1] = [message |-> FailedAt12, tag |-> TagTag, ret |-> TRUE]
    /\ calls[2] = [message |-> FailedAt99, tag |-> TagTag, ret |-> FALSE]

(***************************************************************************)
(* Claims about parse_time_duration and main (Spec)                        *)
(***************************************************************************)
\* <integer><unit>: one or more digits followed by exactly one of s, m, h
InGrammar(s) ==
    /\ Len(s) >= 2
    /\ \A i \in 1..(Len(s) - 1) : s[i] \in Digits
    /\ s[Len(s)] \in DurationUnits

\* C10: a --duration value outside the grammar never gets main past the
\* parse: it ends with the ValueError before any command is launched
C10_InvalidDurationRejected ==
    (args.duration # None /\ ~InGrammar(args.duration[1]))
        => pc \in {"main", "ValueError", "KeyboardInterrupt"}

(***************************************************************************)
(* Claims about parse_time_duration (SpecDuration)                         *)
(***************************************************************************)
\* seconds in one unit
UnitSeconds(unit) == IF unit = "s" THEN 1 ELSE IF unit = "m" THEN 60 ELSE 3600

\* C11: for <n><unit> with unit s, m or h, parse_time_duration returns n,
\* 60*n or 3600*n seconds
C11_DurationValue ==
    \A n \in 0..MaxDurationValue, unit \in {"s", "m", "h"} :
        (calls # <<>> /\ calls[1].duration_str = Str(n) \o <<unit>>)
            => calls[1].ret = [ok |-> TRUE, seconds |-> n * UnitSeconds(unit)]

\* "5m" gave 300
C11_Witness ==
    calls = <<[duration_str |-> <<"5", "m">>, ret |-> [ok |-> TRUE, seconds |-> 300]]>>

(***************************************************************************)
(* Claims about main and the outcome of stream_logs (Spec)                 *)
(***************************************************************************)
\* main has exited after stream_logs returned
MainDone == pc \in {"exit_0", "exit_1"}

HoldsWhatWasAccumulated ==
    \E m \in {IF last_line = None THEN NewLogMonitor(args.app_package, {})
              ELSE ProcessLogLine(prev, last_line[1])} :
        /\ SameAggregates(monitor, m)
        /\ monitor.log_lines = m.log_lines
        /\ monitor.total_lines = m.total_lines

\* C13: a failure to start the source (its pre-steps included) or to read
\* from it never leaves stream_logs as an exception: stream_logs returns
\* False, with the LogMonitor holding what the lines processed before gave
C13_FailureIsReturned ==
    /\ pc # "raised"
    /\ left_loop = Some("exception") =>
           /\ success = Some(FALSE)
           /\ pc \in {"finally", "returned", "exit_1"}
           /\ HoldsWhatWasAccumulated

\* the stop reason a caller can read from what stream_logs returned: False
\* is returned for a source error only, True is what a stream that reached
\* its end returns
ReasonRead(ret) == IF ret THEN "eof" ELSE "exception"

\* C14: a session that has returned ended for exactly one of the four
\* reasons (end of file, duration, cancellation, source error), and the
\* value stream_logs returned tells its caller which one
C14_ReasonToldToCaller ==
    StreamLogsReturned =>
        /\ left_loop # None
        /\ left_loop[1] \in {"eof", "duration", "interrupted", "exception"}
        /\ ReasonRead(success[1]) = left_loop[1]

(***************************************************************************)
(* Claims about classify_log_line (SpecSession)                            *)
(***************************************************************************)
\* the tier of each priority character
Tier(p) ==
    [V |-> "verbose", D |-> "debug", I |-> "info", W |-> "warning", E |-> "error",
     F |-> "error"][p]

\* C15: classify_log_line gives V verbose, D debug, I info, W warning, E and
\* F error; a line of priority F changes the counters and lists exactly as
\* the same line with priority E does, which for a new signature that passes
\* the filter is one more in error_count and one more entry in errors
C15_FatalIsError ==
    (last_line # None /\ ParseLogcatLine(last_line[1]) # None) =>
        \E parsed \in {ParseLogcatLine(last_line[1])[1]} :
            /\ ClassifyLogLine(parsed) = Tier(parsed.priority)
            /\ parsed.priority = "F" =>
                   \E asE \in {ProcessLogLine(prev, [last_line[1] EXCEPT ![Len(Stamp) + 1] = "E"])} :
                       /\ SameAggregates(monitor, asE)
                       /\ monitor.total_lines = asE.total_lines
            /\ (/\ parsed.priority \in {"E", "F"}
                /\ "error" \in prev.severity_filter
                /\ Signature(parsed.message, parsed.tag) \notin prev.seen_messages)
                   => /\ monitor.error_count = prev.error_count + 1
                      /\ monitor.errors = Append(prev.errors, Entry(parsed))

\* a line of priority F was counted and listed as the second error
C15_Witness ==
    /\ last_line = Some(FatalOk)
    /\ prev.error_count = 1
    /\ monitor.error_count = 2
    /\ Len(monitor.errors) = 2

(***************************************************************************)
(* Claims about the severity threshold (SpecThreshold)                     *)
(***************************************************************************)
\* V < D < I < W < E < F
Rank(p) == [V |-> 1, D |-> 2, I |-> 3, W |-> 4, E |-> 5, F |-> 6][p]

\* the priority characters of a severity
LettersOf(sev) ==
    [verbose |-> {"V"}, debug |-> {"D"}, info |-> {"I"}, warning |-> {"W"},
     error |-> {"E", "F"}][sev]

\* the priority character of the "*:<c>" argument that ends cmd
Threshold == cmd[1][Len(cmd[1])][3]

\* C16: for a filter of known severities, cmd ends with "*:<c>" where c is
\* the lowest, in the order V<D<I<W<E<F, of the characters of the severities
\* in the filter; c is D for the default filter and E for {error}
C16_ThresholdIsLowest ==
    (cmd # None /\ monitor.severity_filter \subseteq Severities) =>
        /\ Len(cmd[1][Len(cmd[1])]) = 3
        /\ cmd[1][Len(cmd[1])][1] = "*"
        /\ cmd[1][Len(cmd[1])][2] = ":"
        /\ \E sev \in monitor.severity_filter : Threshold \in LettersOf(sev)
        /\ \A sev \in monitor.severity_filter :
               \A p \in LettersOf(sev) : Rank(Threshold) <= Rank(p)
        /\ monitor.severity_filter = DefaultSeverityFilter => Threshold = "D"
        /\ monitor.severity_filter = {"error"} => Threshold = "E"

\* cmd was built for the filter {warning, error}: the threshold is W
C16_Witness ==
    /\ cmd # None
    /\ monitor.severity_filter = {"warning", "error"}
    /\ cmd[1] = <<<<"-", "v">>, <<"t", "i", "m", "e">>, <<"*", ":", "W">>>>

(***************************************************************************)
(* Claims about the order of processing (SpecOrder)                        *)
(***************************************************************************)
\* the lines readline has taken from the source so far, in the order written
LinesRead == SubSeq(written, 1, Len(written) - Len(pipe))

\* a line was taken from the source and lost to an exception of the read
ReadFailed == proc # "none" /\ (pc = "except" \/ left_loop = Some("exception"))

\* the lines whose processing has finished: all those read, but the one
\* being dispatched or lost
LinesDone ==
    IF pc = "process" \/ ReadFailed THEN SubSeq(LinesRead, 1, Len(LinesRead) - 1)
    ELSE LinesRead

\* the lines whose follow-mode echo step has finished as well
LinesEchoed ==
    IF pc = "echo" THEN SubSeq(LinesDone, 1, Len(LinesDone) - 1) ELSE LinesDone

\* the lines of `lines` as they are dispatched (without trailing
\* whitespace), the blank ones left out
Dispatched(lines) == SelectSeq([i \in DOMAIN lines |-> RStrip(lines[i])], NonBlank)

\* line i of log_lines is a record of severity sev that passes the filter
\* and no earlier error or warning line that passes it has its signature
FirstArrival(i, sev) ==
    \E p \in {ParseLogcatLine(monitor.log_lines[i])} :
        /\ p # None
        /\ ClassifyLogLine(p[1]) = sev
        /\ sev \in monitor.severity_filter
        /\ \A j \in 1..(i - 1) :
               \E q \in {ParseLogcatLine(monitor.log_lines[j])} :
                   ~ /\ q # None
                     /\ ClassifyLogLine(q[1]) \in {"error", "warning"} \cap monitor.severity_filter
                     /\ Signature(q[1].message, q[1].tag) = Signature(p[1].message, p[1].tag)

\* the entries of the first arrivals of severity sev, in the order of log_lines
FirstArrivals(sev) ==
    LET first == SelectSeq([i \in DOMAIN monitor.log_lines |-> i],
                           LAMBDA i : FirstArrival(i, sev))
    IN  [a \in DOMAIN first |-> Entry(ParseLogcatLine(monitor.log_lines[first[a]])[1])]

\* C17: lines are processed one at a time in the order the source wrote
\* them.  At every moment log_lines holds, in the order written, the
\* non-blank ones of the lines whose processing has finished (taken as they are
\* dispatched, without trailing whitespace); the line being dispatched is
\* the one read last; errors and warnings are in the order in which each
\* signature first arrived; the follow-mode echo is in that order too
C17_ProcessedInOrder ==
    /\ monitor.log_lines = Dispatched(LinesDone)
    /\ pc = "process" => line = LinesRead[Len(LinesRead)]
    /\ monitor.errors = FirstArrivals("error")
    /\ monitor.warnings = FirstArrivals("warning")
    /\ echoed = IF args.follow
                THEN SelectSeq(Dispatched(LinesEchoed),
                               LAMBDA l : /\ ParseLogcatLine(l) # None
                                          /\ ClassifyLogLine(ParseLogcatLine(l)[1])
                                                 \in monitor.severity_filter)
                ELSE <<>>

\* three lines were processed in order: the second error is listed after
\* the first, and the warning, whose signature the second error had, is not listed
C17_Witness ==
    /\ written = <<FatalOk, ErrOne, WarnTwo>>
    /\ pipe = <<>>
    /\ monitor.log_lines = <<FatalOk, ErrOne, WarnTwo>>
    /\ monitor.warnings = <<>>
    /\ Len(monitor.errors) = 2
    /\ monitor.errors[1] = Entry(ParseLogcatLine(FatalOk)[1])
    /\ monitor.errors[2] = Entry(ParseLogcatLine(ErrOne)[1])

(***************************************************************************)
(* Claims about parse_logcat_line (SpecParse)                              *)
(***************************************************************************)
\* what follows the priority token of a line of SpecParse and its
\* separating whitespace
AfterPriority(l) == LStrip(SubSeq(l, Len(Stamp) + 2, Len(l)))

\* tag + ": " + message
Reconstructed(parsed) == parsed.tag \o <<":", " ">> \o parsed.message

\* C18 as claimed: for every line that parses, tag + ": " + message is the
\* text that follows the priority token and its separating whitespace
C18_RoundTrip ==
    (calls # <<>> /\ calls[1].ret # None) =>
        Reconstructed(calls[1].ret[1]) = AfterPriority(calls[1].line)

\* tag immediately followed by the first colon and exactly one space, and
\* then nothing or a message that neither starts nor ends with whitespace
CanonicalSpacing(rest) ==
    \E c \in {Find(rest, 1, ":")} :
        /\ c >= 1
        /\ c > 1 => rest[c - 1] \notin Spaces
        /\ Len(rest) >= c + 1
        /\ rest[c + 1] = " "
        /\ Len(rest) > c + 1 => (rest[c + 2] \notin Spaces /\ rest[Len(rest)] \notin Spaces)

\* C18 as amended: tag is the text before the first colon and message the
\* text after it, each without its surrounding whitespace, so that
\* tag + ": " + message is the original text exactly when its spacing is canonical
C18_RoundTripUpToSpacing ==
    (calls # <<>> /\ calls[1].ret # None) =>
        \E rest \in {AfterPriority(calls[1].line)} :
            \E c \in {Find(rest, 1, ":")} :
                /\ c >= 1
                /\ calls[1].ret[1].tag = Strip(SubSeq(rest, 1, c - 1))
                /\ calls[1].ret[1].message = Strip(SubSeq(rest, c + 1, Len(rest)))
                /\ Reconstructed(calls[1].ret[1]) = rest <=> CanonicalSpacing(rest)

\* "a : a" parsed to tag "a" and message "a", which give back "a: a"
C18_Witness ==
    /\ calls # <<>>
    /\ calls[1].line = LogLine("E", <<"a", " ", ":", " ", "a">>)
    /\ calls[1].ret # None
    /\ calls[1].ret[1].tag = <<"a">>
    /\ calls[1].ret[1].message = <<"a">>

(***************************************************************************)
(* Claims about the stored text of lines that do not parse (Spec)          *)
(***************************************************************************)
\* C19: when stream_logs has dispatched a line that does not match the
\* shape (and is not blank), the text stored last in log_lines is the line
\* as the source wrote it, character for character, trailing whitespace
\* included
C19_StoredAsEmitted ==
    (pc = "check_duration" /\ NonBlank(line) /\ ParseLogcatLine(line) = None) =>
        /\ monitor.log_lines # <<>>
        /\ monitor.log_lines[Len(monitor.log_lines)] = line

(***************************************************************************)
(* Claims about the caps of the reports (SpecVolume)                       *)
(***************************************************************************)
\* s is the first min(n, Len(full)) elements of full
IsPrefixOfAtMost(s, full, n) ==
    /\ Len(s) = (IF Len(full) < n THEN Len(full) ELSE n)
    /\ \A i \in 1..Len(s) : s[i] = full[i]

\* the rows of get_summary that start with `mark`, without the mark
RowsMarked(mark) ==
    LET rows == SelectSeq(GetSummary(monitor, FALSE),
                          LAMBDA r : Len(r) >= Len(mark) /\ SubSeq(r, 1, Len(mark)) = mark)
    IN  [i \in DOMAIN rows |-> SubSeq(rows[i], Len(mark) + 1, Len(rows[i]))]

\* shown is the first min(5, Len(full)) entries of full, each cut to its
\* first 120 characters
IsTopFive(shown, full) ==
    /\ Len(shown) = (IF Len(full) < 5 THEN Len(full) ELSE 5)
    /\ \A i \in 1..Len(shown) : IsPrefixOfAtMost(shown[i], full[i], 120)

\* C20: get_summary shows the first 5 errors and the first 5 warnings at
\* most, each cut to 120 characters at most; get_json_output gives the first
\* 20 errors and the first 20 warnings at most, and the 50 raw lines stored
\* last at most, in arrival order
C20_ReportsAreCapped ==
    /\ IsTopFive(RowsMarked(<<" ", " ", "X", " ">>), monitor.errors)
    /\ IsTopFive(RowsMarked(<<" ", " ", "!", " ", " ">>), monitor.warnings)
    /\ IsPrefixOfAtMost(GetJsonOutput(monitor).errors, monitor.errors, 20)
    /\ IsPrefixOfAtMost(GetJsonOutput(monitor).warnings, monitor.warnings, 20)
    /\ \E sample \in {GetJsonOutput(monitor).sample_logs} :
           /\ Len(sample) = (IF Len(monitor.log_lines) < 50 THEN Len(monitor.log_lines) ELSE 50)
           /\ \A i \in 1..Len(sample) :
                  sample[i] = monitor.log_lines[Len(monitor.log_lines) - Len(sample) + i]

\* more than 20 errors and 20 warnings are listed, the first error is longer
\* than 120 characters, and more than 50 lines are stored
C20_Witness ==
    /\ Len(monitor.errors) > 20
    /\ Len(monitor.warnings) > 20
    /\ Len(monitor.errors[1]) > 120
    /\ Len(monitor.log_lines) > 50

(***************************************************************************)
(* Claims about cancellation and the terminal states (FairSpec, Spec)      *)
(***************************************************************************)
\* C21: once signal_handler has run (a SIGINT that came after it was
\* installed, the moment before Popen has stored log_process included),
\* stream_logs eventually returns with the source process gone or never
\* started, without the source having to write a line
C21_CancelAtAnyPoint ==
    monitor.interrupted ~> (StreamLogsReturned /\ proc \in {"none", "exited"})

\* total_lines, the counters, the lists, the stored lines and the signature
\* set of two LogMonitor states are the same
SameSession(a, b) ==
    /\ SameAggregates(a, b)
    /\ a.log_lines = b.log_lines
    /\ a.total_lines = b.total_lines

\* C22: a step of signal_handler sets the interrupted flag, may send the
\* source process its termination, and changes nothing else: not the
\* counters, lists, stored lines or signature set, nor where the main thread
\* is or what it has read; and any step that does change the counters,
\* lists, stored lines or signature set is the dispatch of the line read
C22_HandlerLeavesSession ==
    [][/\ (handler /\ sigints' # sigints) =>
              /\ monitor' = [monitor EXCEPT !.interrupted = TRUE]
              /\ proc' \in {proc, "terminating"}
              /\ UNCHANGED <<prev, last_line, pc, pipe, line, echoed, written, success,
                             left_loop, report>>
       /\ ~SameSession(monitor, monitor') =>
              /\ pc = "process"
              /\ pc' = "echo"
              /\ sigints' = sigints
              /\ monitor' = ProcessLogLine(monitor, RStrip(line))]_vars

\* signal_handler ran between the dispatch of a line and its echo, after the
\* line had been counted as an error, and sent the source its termination
C22_Witness ==
    /\ sigint_pc = Some("echo")
    /\ monitor.interrupted
    /\ monitor.error_count = 1
    /\ monitor.total_lines = 1
    /\ Cardinality(monitor.seen_messages) = 1
    /\ terminate_called

\* the state of the controller: Idle until main calls stream_logs, Streaming
\* from the call until the loop is left or the attempt to start or read the
\* source has failed, Terminal from then on.  A main that ended before the
\* call has left the controller Idle.
Phase ==
    IF pc \in {"main", "ValueError"} \/ (pc = "KeyboardInterrupt" /\ sigint_pc = Some("main"))
    THEN "Idle"
    ELSE IF pc \in {"clear", "pidof", "signal", "popen", "start_time"} \/ Streaming
    THEN "Streaming"
    ELSE "Terminal"

\* C23: the controller only moves from Idle to Streaming and from Streaming
\* to Terminal; once Terminal it stays so, the way the loop was left is
\* never revised, and total_lines, the counters, the lists, the stored lines,
\* the signature set and the echoed lines never change again, a SIGINT
\* delivered later included
C23_TerminalIsAbsorbing ==
    [][/\ Phase' # Phase =>
              <<Phase, Phase'>> \in {<<"Idle", "Streaming">>, <<"Streaming", "Terminal">>}
       /\ left_loop # None => left_loop' = left_loop
       /\ success # None => success' = success
       /\ Phase = "Terminal" =>
              /\ SameSession(monitor, monitor')
              /\ UNCHANGED <<echoed, last_line, line, pipe>>]_vars

\* a SIGINT came after stream_logs had returned True at the end of a stream
\* of which one line was stored
C23_Witness ==
    /\ sigint_pc = Some("returned")
    /\ monitor.interrupted
    /\ left_loop = Some("eof")
    /\ success = Some(TRUE)
    /\ monitor.total_lines = 1
    /\ Len(monitor.log_lines) = 1

(***************************************************************************)
(* Claims about the follow-mode echo (Spec)                                *)
(***************************************************************************)
\* the line parses to a record whose severity is in the filter
PassesFilter(l) ==
    \E p \in {ParseLogcatLine(l)} :
        p # None /\ ClassifyLogLine(p[1]) \in monitor.severity_filter

\* C24: in follow mode the echoed lines are, in order and once each, those
\* of the lines handled so far that parse to a record whose severity is in
\* the filter; when the echo step of a line is reached that line has been
\* aggregated (it is the last call of process_log_line and is stored) and
\* no later line has been read, and it is not echoed yet
C24_EchoAfterAggregation ==
    args.follow =>
        /\ echoed = SelectSeq(Dispatched(LinesEchoed), PassesFilter)
        /\ monitor.log_lines = Dispatched(LinesDone)
        /\ pc = "echo" =>
               /\ line = LinesRead[Len(LinesRead)]
               /\ last_line = Some(RStrip(line))
               /\ LinesDone = LinesRead
               /\ Len(LinesEchoed) = Len(LinesRead) - 1

\* follow mode: a verbose line, which the default filter excludes, and then
\* an error line were handled; both are stored, the error line alone was echoed
C24_Witness ==
    /\ args.follow
    /\ pc = "check_duration"
    /\ written = <<VerboseV, ErrOne>>
    /\ monitor.log_lines = <<VerboseV, ErrOne>>
    /\ echoed = <<ErrOne>>

(***************************************************************************)
(* Claims about the info list (SpecVolume)                                 *)
(***************************************************************************)
\* the line parses to an info record and info is in the filter of m
IsInfoFor(m, l) ==
    \E p \in {ParseLogcatLine(l)} :
        p # None /\ ClassifyLogLine(p[1]) = "info" /\ "info" \in m.severity_filter

C26_SeverityFieldIsTier ==
    (calls # <<>> /\ calls[1].ret # None) =>
        /\ calls[1].ret[1].severity \in Severities
        /\ calls[1].ret[1].priority = "F" => calls[1].ret[1].severity = "error"

\* the name PRIORITY_MAP gives each priority character
MapName(p) ==
    [V |-> "verbose", D |-> "debug", I |-> "info", W |-> "warning", E |-> "error",
     F |-> "fatal"][p]

\* C26 as amended: the priority field is the character of the line and the
\* severity field the name PRIORITY_MAP gives it, one of the six verbose,
\* debug, info, warning, error, fatal: a line of priority F gives severity
\* fatal with priority F.  The tier, one of five, is what classify_log_line
\* gives for the record: the severity field for V, D, I, W, E, and error for F.
C26_SeverityFieldIsMapName ==
    (calls # <<>> /\ calls[1].ret # None) =>
        \E parsed \in {calls[1].ret[1]} :
            /\ parsed.priority = calls[1].line[Len(Stamp) + 1]
            /\ parsed.priority \in {"V", "D", "I", "W", "E", "F"}
            /\ parsed.severity = MapName(parsed.priority)
            /\ ClassifyLogLine(parsed) \in {"verbose", "debug", "info", "warning", "error"}
            /\ ClassifyLogLine(parsed) = (IF parsed.priority = "F" THEN "error"
                                          ELSE parsed.severity)

\* "... F a: a" parsed to a record of priority F and severity fatal
C26_Witness ==
    /\ calls # <<>>
    /\ calls[1].line = LogLine("F", <<"a", ":", " ", "a">>)
    /\ calls[1].ret # None
    /\ calls[1].ret[1].priority = "F"
    /\ calls[1].ret[1].severity = "fatal"
    /\ calls[1].ret[1].tag = <<"a">>

(***************************************************************************)
(* Claims about the counters of process_log_line (SpecSession)             *)
(***************************************************************************)
\* C27: error_count is the number of entries of errors and warning_count
\* the number of entries of warnings; together they are the number of
\* signatures admitted, and a record whose signature was already admitted
\* changes neither counter
C27_CountersCountEntries ==
    /\ monitor.error_count = Len(monitor.errors)
    /\ monitor.warning_count = Len(monitor.warnings)
    /\ monitor.error_count + monitor.warning_count = Cardinality(monitor.seen_messages)
    /\ LastWasDuplicate =>
           /\ monitor.error_count = prev.error_count
           /\ monitor.warning_count = prev.warning_count

\* the same error came twice with different digits and an error of another
\* signature once: two entries, error_count 2
C27_Witness ==
    /\ steps = 3
    /\ last_line = Some(ErrTwo)
    /\ prev.error_count = 2
    /\ monitor.error_count = 2
    /\ Len(monitor.errors) = 2
    /\ monitor.total_lines = 3

\* `list` (errors or warnings) holds the entry of a record of SessionLines
\* of severity sev whose signature is sig
AdmittedIn(list, sev, sig) ==
    \E l \in SessionLines :
        \E q \in {ParseLogcatLine(l)} :
            /\ q # None
            /\ ClassifyLogLine(q[1]) = sev
            /\ Entry(q[1]) \in Range(list)
            /\ Signature(q[1].message, q[1].tag) = sig

\* C28: a warning record that passes the filter and whose signature an
\* entry of errors has is not listed and not counted, and changes nothing
\* but total_lines and the stored lines; the same for an error record whose
\* signature an entry of warnings has
C28_SignatureSetIsShared ==
    (last_line # None /\ ParseLogcatLine(last_line[1]) # None) =>
        \E parsed \in {ParseLogcatLine(last_line[1])[1]} :
            \E sig \in {Signature(parsed.message, parsed.tag)} :
                /\ (/\ ClassifyLogLine(parsed) = "warning"
                    /\ "warning" \in prev.severity_filter
                    /\ AdmittedIn(prev.errors, "error", sig))
                       => (SameAggregates(prev, monitor) /\ sig \in prev.seen_messages)
                /\ (/\ ClassifyLogLine(parsed) = "error"
                    /\ "error" \in prev.severity_filter
                    /\ AdmittedIn(prev.warnings, "warning", sig))
                       => (SameAggregates(prev, monitor) /\ sig \in prev.seen_messages)

\* "TagA: boom 1" came as an error and was listed, then "TagA: boom 2" came
\* as a warning and was neither listed nor counted
C28_Witness ==
    /\ steps = 2
    /\ last_line = Some(WarnTwo)
    /\ "warning" \in monitor.severity_filter
    /\ monitor.errors = <<Entry(ParseLogcatLine(ErrOne)[1])>>
    /\ monitor.warnings = <<>>
    /\ monitor.warning_count = 0
    /\ monitor.total_lines = 2

(***************************************************************************)
(* Claims about the tag in the signature (SpecTags)                        *)
(***************************************************************************)
\* the characters of s that are neither digits nor whitespace
Letters(s) == SelectSeq(s, LAMBDA c : c \notin Digits /\ c \notin Spaces)

\* C29: two calls with the same message and tags that differ only in their
\* digits compute the same signature, and the second returns False; two
\* calls with the same message and tags that differ in a character that is
\* neither a digit nor whitespace compute different signatures, and the
\* second returns True
C29_TagDigitsIgnored ==
    Len(calls) = 2 =>
        /\ (calls[1].message = calls[2].message
               /\ NonDigits(calls[1].tag) = NonDigits(calls[2].tag))
              => (CallSignature(1) = CallSignature(2) /\ calls[1].ret /\ ~calls[2].ret)
        /\ (calls[1].message = calls[2].message
               /\ Letters(calls[1].tag) # Letters(calls[2].tag))
              => (CallSignature(1) # CallSignature(2) /\ calls[1].ret /\ calls[2].ret)

\* ("a1", "m") then ("a", "m"): the second call is a duplicate
C29_Witness ==
    /\ Len(calls) = 2
    /\ calls[1] = [message |-> <<"m">>, tag |-> <<"a", "1">>, ret |-> TRUE]
    /\ calls[2] = [message |-> <<"m">>, tag |-> <<"a">>, ret |-> FALSE]

\* error_count + warning_count + info_count + debug_count + verbose_count
CounterSum(m) ==
    m.error_count + m.warning_count + m.info_count + m.debug_count + m.verbose_count

\* C30: total_lines is the number of stored lines, and the five severity
\* counters together never exceed it; a call adds at most 1 to their sum
\* and never more than it adds to total_lines
C30_TotalIsStoredLines ==
    /\ monitor.total_lines = Len(monitor.log_lines)
    /\ CounterSum(monitor) <= monitor.total_lines
    /\ CounterSum(monitor) - CounterSum(prev) \in {0, 1}
    /\ CounterSum(monitor) - CounterSum(prev) <= monitor.total_lines - prev.total_lines

\* three lines came: an error that was counted, the same error again, which
\* was stored but not counted, and a line that does not parse
C30_Witness ==
    /\ steps = 3
    /\ last_line = Some(Junk)
    /\ monitor.log_lines = <<ErrOne, ErrTwo, Junk>>
    /\ monitor.total_lines = 3
    /\ CounterSum(monitor) = 1

====
